---- MODULE Spec2Model ----
(***************************************************************************)
(* Model of the Cycl3D Basic Bike Fit Tool (src/script.js): the landmark   *)
(* sequence, the pointer-gesture handlers (handleStart, handleMove,        *)
(* handleEnd), the redraw pipeline (draw, calcAngle, updateTable), the     *)
(* button actions, the photo upload, the demo image, the saved session     *)
(* and the PDF export.  alert() and doc.save() are outputs of the handler  *)
(* run that has just ended.                                                *)
(*                                                                         *)
(* JavaScript numbers that hold angles are modelled as integers in         *)
(* micro-degrees (Micro units per degree); NaN is a sentinel.  A point is  *)
(* a record [x, y] in display pixels.  A JavaScript reference that may be  *)
(* null is a set with at most one element.                                 *)
(***************************************************************************)
EXTENDS Integers, Sequences, FiniteSets, TLC

\* ---------------------------------------------------------------- bounds

\* Number of distinct pointer locations the environment delivers.
NumLocations == 2

\* The pointer locations, in display pixels (what getPos returns).  The third
\* is closer to the first than the capture radius; every other pair is
\* farther apart than the capture radius.
AllLocations ==
    << [x |-> 0,  y |-> 0],
       [x |-> 30, y |-> 30],
       [x |-> 20, y |-> 0],
       [x |-> 50, y |-> 0],
       [x |-> 0,  y |-> 60] >>

\* Pointer locations that are pairwise out of grab range (for NumLocations = 2).
Locations == { AllLocations[i] : i \in 1..NumLocations }

\* The same with one more location, in grab range of the first one.
NearLocations == { AllLocations[i] : i \in 1..(NumLocations + 1) }

\* Three locations out of grab range of each other, for taps that place
\* enough markers for a results row.
FarLocations == { AllLocations[1], AllLocations[2], AllLocations[4] }

PointerTypes == {"mouse", "touch"}

\* The most pointers held down at a time.
NumPointers == 2

\* e.pointerId of the pointers.
PointerIds == 1..NumPointers

\* The marker positions the angle calculation is evaluated on: the pointer
\* locations and one more, which puts three positions on a diagonal line.
AngleInputs == { AllLocations[i] : i \in DOMAIN AllLocations } \cup { [x |-> 60, y |-> 60] }

\* The longest marker array the Save button is pressed on.
MaxSaved == 3

\* The most file reads in flight at a time.
MaxReads == 1

\* ------------------------------------------------------ program constants

MAX_POINTS == 7

CaptureRadius == 25

RidingStyles == {"Relaxed", "Balanced", "Aggressive"}

IDEAL_RANGESMutPartial ==
    [ Knee     |-> [Relaxed |-> <<145, 150>>, Balanced |-> <<140, 145>>, Aggressive |-> <<138, 142>>],
      Back     |-> [Relaxed |-> <<45, 50>>,   Balanced |-> <<40, 45>>,   Aggressive |-> <<30, 40>>],
      Shoulder |-> [Relaxed |-> <<80, 90>>,   Balanced |-> <<90, 95>>,   Aggressive |-> <<95, 105>>],
      Elbow    |-> [Relaxed |-> <<10, 15>>,   Balanced |-> <<15, 20>>],
      Ankle    |-> [Relaxed |-> <<95, 105>>,  Balanced |-> <<100, 115>>, Aggressive |-> <<110, 125>>] ]

IDEAL_RANGES ==
    [ Knee     |-> [Relaxed |-> <<145, 150>>, Balanced |-> <<140, 145>>, Aggressive |-> <<138, 142>>],
      Back     |-> [Relaxed |-> <<45, 50>>,   Balanced |-> <<40, 45>>,   Aggressive |-> <<30, 40>>],
      Shoulder |-> [Relaxed |-> <<80, 90>>,   Balanced |-> <<90, 95>>,   Aggressive |-> <<95, 105>>],
      Elbow    |-> [Relaxed |-> <<10, 15>>,   Balanced |-> <<15, 20>>,   Aggressive |-> <<20, 30>>],
      Ankle    |-> [Relaxed |-> <<95, 105>>,  Balanced |-> <<100, 115>>, Aggressive |-> <<110, 125>>] ]

ADVICE ==
    [ Knee     |-> [low |-> "RAISE saddle height",       high |-> "LOWER saddle height"],
      Back     |-> [low |-> "Higher bars (add spacers)", high |-> "Lower bars (remove spacers)"],
      Shoulder |-> [low |-> "Longer stem",               high |-> "Shorter stem"],
      Elbow    |-> [low |-> "Shorten reach",             high |-> "Increase reach"],
      Ankle    |-> [low |-> "Check cleat fore/aft",      high |-> "Check cleat fore/aft"] ]

Optimal == "Optimal"

\* The texts of the alerts and of the export button.
SavedAlert == "Session saved to your browser!"

SaveFailedAlert == "Unable to save session. Your browser storage may be full or disabled."

DemoFailedAlert == "Failed to load the demo image. Please ensure the Assets folder is present."

NoPhotoAlert == "Please upload a photo before exporting. Place joint markers to include measurements."

PdfFailedAlert == "PDF export failed. Please try again."

DefaultLabel == "Download PDF Report"

GeneratingLabel == "Generating..."

\* ------------------------------------------------------------ JS numbers

\* Angles are held in micro-degrees.
Micro == 1000000

\* The result of an arithmetic operation on 0/0.
NaN == -1

Abs(n) == IF n < 0 THEN -n ELSE n

\* Number.prototype.toFixed(1): the value rounded to one decimal, here in
\* tenths of a degree; NaN prints as NaN.
toFixed1(a) == IF a = NaN THEN NaN ELSE (a + (Micro \div 20)) \div (Micro \div 10)

\* atan(2^-i) in micro-degrees, i = 0..15.
AtanTable ==
    << 45000000, 26565051, 14036243, 7125016, 3576334, 1789911, 895174, 447614,
       223811, 111906, 55953, 27976, 13988, 6994, 3497, 1749 >>

Pow2(i) == IF i = 0 THEN 1 ELSE 2 ^ i

\* Fixed-point scale of the vector rotated by Rotate.
Scale == 65536

\* Shift-and-add rotation of the vector (vx, vy), vx > 0, onto the x axis;
\* z accumulates the angle turned, in micro-degrees.
RECURSIVE Rotate(_, _, _, _)
Rotate(vx, vy, z, i) ==
    IF vy = 0 \/ i >= Len(AtanTable) THEN z
    ELSE IF vy > 0
         THEN Rotate(vx + (vy \div Pow2(i)), vy - (vx \div Pow2(i)), z + AtanTable[i + 1], i + 1)
         ELSE Rotate(vx - (vy \div Pow2(i)), vy + (vx \div Pow2(i)), z - AtanTable[i + 1], i + 1)

\* Math.atan2(vy, vx) * (180 / Math.PI) for vy >= 0, in micro-degrees:
\* a value in [0, 180]; atan2(0, 0) is 0.
Atan2Deg(vy, vx) ==
    IF vy = 0 THEN (IF vx >= 0 THEN 0 ELSE 180 * Micro)
    ELSE IF vx > 0 THEN Rotate(vx * Scale, vy * Scale, 0, 0)
    ELSE Rotate(vy * Scale, (-vx) * Scale, 90 * Micro, 0)

\* ------------------------------------------------------ angle calculation

\* calcAngle(p1, p2, p3): the angle at p2 between p2->p1 and p2->p3.  With
\* magA * magC = 0 the quotient dot / (magA * magC) is 0/0 = NaN, which the
\* clamp and acos pass through.  Otherwise acos of the clamped cosine is the
\* angle whose cosine is dot/(|vA||vC|) and whose sine is |cross|/(|vA||vC|).
calcAngleMutZero(p1, p2, p3) ==
    LET vA    == [x |-> p1.x - p2.x, y |-> p1.y - p2.y]
        vC    == [x |-> p3.x - p2.x, y |-> p3.y - p2.y]
        dot   == (vA.x * vC.x) + (vA.y * vC.y)
        cross == (vA.x * vC.y) - (vA.y * vC.x)
    IN  Atan2Deg(Abs(cross), dot)

calcAngleMutSigned(p1, p2, p3) ==
    LET vA    == [x |-> p1.x - p2.x, y |-> p1.y - p2.y]
        vC    == [x |-> p3.x - p2.x, y |-> p3.y - p2.y]
        dot   == (vA.x * vC.x) + (vA.y * vC.y)
        cross == (vA.x * vC.y) - (vA.y * vC.x)
        magA2 == (vA.x * vA.x) + (vA.y * vA.y)
        magC2 == (vC.x * vC.x) + (vC.y * vC.y)
    IN  IF magA2 = 0 \/ magC2 = 0 THEN NaN
        ELSE IF cross < 0 THEN - Atan2Deg(-cross, dot) ELSE Atan2Deg(cross, dot)

calcAngle(p1, p2, p3) ==
    LET vA    == [x |-> p1.x - p2.x, y |-> p1.y - p2.y]
        vC    == [x |-> p3.x - p2.x, y |-> p3.y - p2.y]
        dot   == (vA.x * vC.x) + (vA.y * vC.y)
        cross == (vA.x * vC.y) - (vA.y * vC.x)
        magA2 == (vA.x * vA.x) + (vA.y * vA.y)
        magC2 == (vC.x * vC.x) + (vC.y * vC.y)
    IN  IF magA2 = 0 \/ magC2 = 0 THEN NaN
        ELSE Atan2Deg(Abs(cross), dot)

\* Math.abs(Math.atan2(p4.y - p3.y, p4.x - p3.x) * (180 / Math.PI))
backAngle(p3, p4) == Atan2Deg(Abs(p4.y - p3.y), p4.x - p3.x)

\* Math.abs(180 - calcAngle(p4, p5, p6))
elbowAngle(p4, p5, p6) ==
    LET a == calcAngle(p4, p5, p6)
    IN  IF a = NaN THEN NaN ELSE Abs((180 * Micro) - a)

\* The angle values over the marker positions, evaluated once.
calcAngleAt  == [p1 \in AngleInputs, p2 \in AngleInputs, p3 \in AngleInputs |-> calcAngle(p1, p2, p3)]
backAngleAt  == [p3 \in AngleInputs, p4 \in AngleInputs |-> backAngle(p3, p4)]
elbowAngleAt == [p4 \in AngleInputs, p5 \in AngleInputs, p6 \in AngleInputs |-> elbowAngle(p4, p5, p6)]

\* ------------------------------------------------------ application state

VARIABLES
    points,         \* the placed joint markers, in placement order
    draggingPoint,  \* reference to the marker being dragged: {} (null), {i}
                    \* (the i-th element of points, from 1) or Detached
    ghostPoint,     \* live drag-preview position: {} (null) or {p}
    isTouchDrag,    \* TRUE while a touch-pointer drag is active
    lastX, lastY,   \* last recorded pointer position
    fitType,        \* fitTypeSelect.value, the selected riding style
    resultsArea,    \* rows of the results table shown below the photo
    canvas,         \* what the last draw() painted on the overlay
    imgDisplay,     \* img.style.display of the photo element
    storage,        \* localStorage item 'cycl3d_save': {} (absent) or {text}
    gestureMoved,   \* history: TRUE when a pointermove has been handled past
                    \* handleMove's early return since the last pointerdown
                    \* and no pointerup or pointercancel came after it
    demoLoading,    \* the flag that makes loadDemoImage ignore further requests
    imgPending,     \* the load in flight on the photo element: "none", or
                    \* "demo" after loadDemoImage set img.src, with its onload
                    \* and onerror callbacks installed, or "upload" after the
                    \* reader's callback set img.src and img.onload
    imgNatural,     \* img.naturalWidth > 0: the photo element holds an image
    reading,        \* number of FileReader reads of a selected file in flight
    placedBefore,   \* history: TRUE when points holds a marker that was
                    \* already placed when the demo load in flight was
                    \* requested; FALSE when no demo load is in flight
    pdfDisabled,    \* pdfBtn.disabled
    pdfText,        \* pdfBtn.textContent
    pdfRunning,     \* position of the export handler: TRUE inside its try block
    alertMsg,       \* output: the alert() the last handler raised, or NoAlert
    pdfSaved,       \* output: the report the last handler saved with doc.save,
                    \* as {rows of its measurements table}, or {} for none
    holds,          \* environment: the pointers that are down, in the order
                    \* of their presses, each with its pointerId, its type
                    \* and the index in points its press selected (0 for
                    \* none), where the environment tells them apart
    moveType,       \* environment: the type of the pointer whose pointermove
                    \* last set the ghost since the last press or release;
                    \* "" if none
    cleared         \* environment: the user has pressed Clear and has since
                    \* neither chosen a file nor asked for the demo image,
                    \* where the environment keeps track of it

vars == << points, draggingPoint, ghostPoint, isTouchDrag, lastX, lastY,
           fitType, resultsArea, canvas, imgDisplay, storage, gestureMoved,
           demoLoading, imgPending, imgNatural, placedBefore,
           pdfDisabled, pdfText, pdfRunning, alertMsg, pdfSaved,
           reading, holds, moveType, cleared >>

\* The demo-load state and the export button's state.
demoVars == << demoLoading, imgPending, imgNatural, placedBefore >>

pdfVars == << pdfDisabled, pdfText, pdfRunning >>

\* What the environment knows of the pointers and of the user's requests; no
\* handler reads or writes it.
envVars == << holds, moveType, cleared >>

NoAlert == ""

\* A handler run that reaches no alert() and no doc.save().
Silent == alertMsg' = NoAlert /\ pdfSaved' = {}

\* A reference to a marker object that is no longer an element of points
\* (the array it was in has been replaced).
Detached == {0}

\* points[i] of the source, i counted from 0.
At(pts, i) == pts[i + 1]

\* ----------------------------------------------------------------- draw

JointName(i) ==
    CASE i = 1 -> "Ankle"
      [] i = 2 -> "Knee"
      [] i = 3 -> "Back"
      [] i = 4 -> "Shoulder"
      [] i = 5 -> "Elbow"
      [] OTHER -> ""

\* The conditions `i === k && points[k + 1]` of draw's forEach body.
HasAngleMutLate(pts, i) == i \in 1..5 /\ Len(pts) > i + 2

HasAngle(pts, i) == i \in 1..5 /\ Len(pts) > i + 1

JointAngle(pts, i) ==
    CASE i = 1 -> calcAngleAt[At(pts, 0), At(pts, 1), At(pts, 2)]
      [] i = 2 -> calcAngleAt[At(pts, 1), At(pts, 2), At(pts, 3)]
      [] i = 3 -> backAngleAt[At(pts, 3), At(pts, 4)]
      [] i = 4 -> calcAngleAt[At(pts, 3), At(pts, 4), At(pts, 5)]
      [] i = 5 -> elbowAngleAt[At(pts, 4), At(pts, 5), At(pts, 6)]

\* angle >= range[0] && angle <= range[1]; every comparison with NaN is false.
isOkOfMutOpen(angle, range) ==
    /\ angle # NaN
    /\ angle > range[1] * Micro
    /\ angle < range[2] * Micro

isOkOf(angle, range) ==
    /\ angle # NaN
    /\ angle >= range[1] * Micro
    /\ angle <= range[2] * Micro

\* The entry draw pushes to angleData for the marker at index i.
AngleRow(pts, i, fit) ==
    LET name  == JointName(i)
        angle == JointAngle(pts, i)
        range == IDEAL_RANGES[name][fit]
    IN  [ name    |-> name,
          angle   |-> angle,
          display |-> toFixed1(angle),
          isOk    |-> isOkOf(angle, range),
          range   |-> range ]

\* What one pass of draw's forEach body leaves for the marker at index i: an
\* entry for angleData, or nothing (angle stays null).
NoEntry == [name |-> ""]

forEachEntry(pts, i, fit) == IF HasAngle(pts, i) THEN AngleRow(pts, i, fit) ELSE NoEntry

\* angleData as draw collects it: the entries pushed, in marker order.
angleData(pts, fit) ==
    SelectSeq([k \in 1..Len(pts) |-> forEachEntry(pts, k - 1, fit)], LAMBDA e : e # NoEntry)

\* m.angle < m.range[0] ? 'low' : 'high'
directionOfMutSwapped(m) == IF m.angle # NaN /\ m.angle > m.range[1] * Micro THEN "low" ELSE "high"

directionOf(m) == IF m.angle # NaN /\ m.angle < m.range[1] * Micro THEN "low" ELSE "high"

\* updateTable(data): the rows written to the results area; no data empties it.
updateTable(data) ==
    [k \in 1..Len(data) |->
        LET m == data[k]
        IN  [ name    |-> m.name,
              ok      |-> m.isOk,
              display |-> m.display,
              range   |-> m.range,
              advice  |-> IF m.isOk THEN Optimal ELSE ADVICE[m.name][directionOf(m)] ]]

\* The results area after draw() has collected the angle data d: draw returns
\* before updateTable when no marker is placed, leaving the table as it was.
drawResultsMutAppend(pts, d, old) ==
    IF Len(pts) < 1 THEN old ELSE old \o updateTable(d)

drawResults(pts, d, old) ==
    IF Len(pts) < 1 THEN old ELSE updateTable(d)

\* drawLoupe() paints the magnifier unless
\* !ghostPoint || !isTouchDrag || !img.naturalWidth.
drawLoupe(ghost, touch, natural) == ghost # {} /\ touch /\ natural

\* The overlay after draw(): the canvas is cleared first; with markers, the
\* dots, the angle labels and (during a drag) the ghost dot are painted.
drawCanvas(pts, d, ghost, loupe) ==
    IF Len(pts) < 1
    THEN [dots |-> << >>, labels |-> << >>, ghost |-> {}, loupe |-> FALSE]
    ELSE [dots   |-> pts,
          labels |-> [k \in 1..Len(d) |-> [name |-> d[k].name, display |-> d[k].display, ok |-> d[k].isOk]],
          ghost  |-> ghost,
          loupe  |-> loupe]

\* The marker array with the dragged marker shown at the ghost position.
previewPoints(pts, dragging, ghost) ==
    IF dragging # {} /\ ghost # {} /\ dragging \subseteq DOMAIN pts
    THEN [pts EXCEPT ![CHOOSE i \in dragging : TRUE] = CHOOSE g \in ghost : TRUE]
    ELSE pts

drawFromMutGhost(old) ==
    \E d \in {angleData(previewPoints(points', draggingPoint', ghostPoint'), fitType')} :
        /\ resultsArea' = drawResults(points', d, old)
        /\ canvas' = drawCanvas(points', d, ghostPoint',
                                drawLoupe(ghostPoint', isTouchDrag', imgNatural'))

\* draw(), applied to the state the handler leaves; old is the content of the
\* results area when draw is entered.
drawFrom(old) ==
    \E d \in {angleData(points', fitType')} :
        /\ resultsArea' = drawResults(points', d, old)
        /\ canvas' = drawCanvas(points', d, ghostPoint',
                                drawLoupe(ghostPoint', isTouchDrag', imgNatural'))

draw == drawFrom(resultsArea)

\* ---------------------------------------------------------------- handlers

\* (p.x - pos.x) ** 2 + (p.y - pos.y) ** 2, the square of the distance.
Dist2(p, pos) == ((p.x - pos.x) * (p.x - pos.x)) + ((p.y - pos.y) * (p.y - pos.y))

InGrabRadiusMutHalf(p, pos) == 4 * Dist2(p, pos) < CaptureRadius * CaptureRadius

InGrabRadiusMutDiameter(p, pos) == Dist2(p, pos) < (2 * CaptureRadius) * (2 * CaptureRadius)

\* Math.sqrt(d2) < 25 for an integer d2.
InGrabRadius(p, pos) == Dist2(p, pos) < CaptureRadius * CaptureRadius

\* points.find(p => distance(p, pos) < 25): a reference to the first marker,
\* in array order, inside the grab radius; {} (undefined) if there is none.
findMutLast(pts, pos) ==
    LET hits == { i \in 1..Len(pts) : InGrabRadius(pts[i], pos) }
    IN  IF hits = {} THEN {} ELSE { CHOOSE i \in hits : \A j \in hits : j <= i }

find(pts, pos) ==
    LET hits == { i \in 1..Len(pts) : InGrabRadius(pts[i], pos) }
    IN  IF hits = {} THEN {} ELSE { CHOOSE i \in hits : \A j \in hits : i <= j }

\* points.length < MAX_POINTS
hasRoomMutOffByOne(pts) == Len(pts) <= MAX_POINTS

hasRoom(pts) == Len(pts) < MAX_POINTS

\* handleStart(e): pointerdown at pos with the given pointer type.
handleStartMutUnshift(pos, pointerType) ==
    LET found == find(points, pos)
    IN  /\ ghostPoint' = {}
        /\ isTouchDrag' = (pointerType = "touch")
        /\ IF found = {} /\ hasRoom(points)
           THEN /\ points' = << [x |-> pos.x, y |-> pos.y] >> \o points
                /\ draggingPoint' = {1}
           ELSE /\ points' = points
                /\ draggingPoint' = found
        /\ lastX' = pos.x
        /\ lastY' = pos.y
        /\ gestureMoved' = FALSE
        /\ UNCHANGED << fitType, imgDisplay, storage, demoVars, pdfVars, reading >>
        /\ Silent
        /\ draw

handleStartMutCommit(pos, pointerType) ==
    LET held  == IF draggingPoint # {} /\ ghostPoint # {} /\ draggingPoint # Detached
                 THEN [points EXCEPT ![CHOOSE i \in draggingPoint : TRUE] = CHOOSE g \in ghostPoint : TRUE]
                 ELSE points
        found == find(held, pos)
    IN  /\ ghostPoint' = {}
        /\ isTouchDrag' = (pointerType = "touch")
        /\ IF found = {} /\ hasRoom(held)
           THEN /\ points' = Append(held, [x |-> pos.x, y |-> pos.y])
                /\ draggingPoint' = {Len(held) + 1}
           ELSE /\ points' = held
                /\ draggingPoint' = found
        /\ lastX' = pos.x
        /\ lastY' = pos.y
        /\ gestureMoved' = FALSE
        /\ UNCHANGED << fitType, imgDisplay, storage, demoVars, pdfVars, reading >>
        /\ Silent
        /\ draw

handleStart(pos, pointerType) ==
    LET found == find(points, pos)
    IN  /\ ghostPoint' = {}
        /\ isTouchDrag' = (pointerType = "touch")
        /\ IF found = {} /\ hasRoom(points)
           THEN /\ points' = Append(points, [x |-> pos.x, y |-> pos.y])
                /\ draggingPoint' = {Len(points) + 1}
           ELSE /\ points' = points
                /\ draggingPoint' = found
        /\ lastX' = pos.x
        /\ lastY' = pos.y
        /\ gestureMoved' = FALSE
        /\ UNCHANGED << fitType, imgDisplay, storage, demoVars, pdfVars, reading >>
        /\ Silent
        /\ draw

handleMoveMutDirect(pos) ==
    /\ draggingPoint # {}
    /\ ghostPoint' = {[x |-> pos.x, y |-> pos.y]}
    /\ points' = IF draggingPoint # Detached
                 THEN [points EXCEPT ![CHOOSE i \in draggingPoint : TRUE] = [x |-> pos.x, y |-> pos.y]]
                 ELSE points
    /\ lastX' = pos.x
    /\ lastY' = pos.y
    /\ gestureMoved' = TRUE
    /\ UNCHANGED << draggingPoint, isTouchDrag, fitType, imgDisplay, storage, demoVars, pdfVars, reading >>
    /\ Silent
    /\ draw

handleMoveMutNoGuard(pos) ==
    /\ ghostPoint' = {[x |-> pos.x, y |-> pos.y]}
    /\ lastX' = pos.x
    /\ lastY' = pos.y
    /\ gestureMoved' = (draggingPoint # {})
    /\ UNCHANGED << points, draggingPoint, isTouchDrag, fitType, imgDisplay, storage, demoVars, pdfVars, reading >>
    /\ Silent
    /\ draw

\* handleMove(e): pointermove at pos.
handleMove(pos) ==
    /\ draggingPoint # {}
    /\ ghostPoint' = {[x |-> pos.x, y |-> pos.y]}
    /\ lastX' = pos.x
    /\ lastY' = pos.y
    /\ gestureMoved' = TRUE
    /\ UNCHANGED << points, draggingPoint, isTouchDrag, fitType, imgDisplay, storage, demoVars, pdfVars, reading >>
    /\ Silent
    /\ draw

\* pointermove with no active drag: handleMove returns at once.
handleMoveIdle ==
    /\ draggingPoint = {}
    /\ UNCHANGED << points, draggingPoint, ghostPoint, isTouchDrag, lastX, lastY,
                    fitType, resultsArea, canvas, imgDisplay, storage, gestureMoved,
                    demoVars, pdfVars, reading >>
    /\ Silent

commitMutLastPos(pts, dragging, ghost) ==
    IF dragging # {} /\ dragging # Detached
    THEN [pts EXCEPT ![CHOOSE i \in dragging : TRUE] = [x |-> lastX, y |-> lastY]]
    ELSE pts

commitMutXOnly(pts, dragging, ghost) ==
    IF dragging # {} /\ ghost # {} /\ dragging # Detached
    THEN LET i == CHOOSE i \in dragging : TRUE
             g == CHOOSE g \in ghost : TRUE
         IN  [pts EXCEPT ![i] = [x |-> g.x, y |-> pts[i].y]]
    ELSE pts

commitMutNeighbour(pts, dragging, ghost) ==
    IF dragging # {} /\ ghost # {} /\ dragging # Detached
    THEN LET i == CHOOSE i \in dragging : TRUE
             g == CHOOSE g \in ghost : TRUE
         IN  [k \in DOMAIN pts |-> IF k = i \/ k = i + 1 THEN [x |-> g.x, y |-> g.y] ELSE pts[k]]
    ELSE pts

\* The commit in handleEnd: with an active marker and a ghost, the marker
\* takes the ghost's coordinates.  A detached marker is not in points.
commit(pts, dragging, ghost) ==
    IF dragging # {} /\ ghost # {} /\ dragging # Detached
    THEN LET i == CHOOSE i \in dragging : TRUE
             g == CHOOSE g \in ghost : TRUE
         IN  [pts EXCEPT ![i] = [x |-> g.x, y |-> g.y]]
    ELSE pts

handleEndMutKeepGhost ==
    /\ points' = commit(points, draggingPoint, ghostPoint)
    /\ ghostPoint' = ghostPoint
    /\ isTouchDrag' = FALSE
    /\ draggingPoint' = {}
    /\ gestureMoved' = FALSE
    /\ UNCHANGED << lastX, lastY, fitType, imgDisplay, storage, demoVars, pdfVars, reading >>
    /\ Silent
    /\ draw

handleEndMutKeepTouch ==
    /\ points' = commit(points, draggingPoint, ghostPoint)
    /\ ghostPoint' = {}
    /\ isTouchDrag' = isTouchDrag
    /\ draggingPoint' = {}
    /\ gestureMoved' = FALSE
    /\ UNCHANGED << lastX, lastY, fitType, imgDisplay, storage, demoVars, pdfVars, reading >>
    /\ Silent
    /\ draw

\* handleEnd(): pointerup or pointercancel.
handleEnd ==
    /\ points' = commit(points, draggingPoint, ghostPoint)
    /\ ghostPoint' = {}
    /\ isTouchDrag' = FALSE
    /\ draggingPoint' = {}
    /\ gestureMoved' = FALSE
    /\ UNCHANGED << lastX, lastY, fitType, imgDisplay, storage, demoVars, pdfVars, reading >>
    /\ Silent
    /\ draw

\* The riding-style dropdown changes to another style; its listener is draw.
fitTypeChangeMutNoDraw(style) ==
    /\ style # fitType
    /\ fitType' = style
    /\ UNCHANGED << points, draggingPoint, ghostPoint, isTouchDrag, lastX, lastY,
                    resultsArea, canvas, imgDisplay, storage, gestureMoved,
                    demoVars, pdfVars, reading >>
    /\ Silent

fitTypeChange(style) ==
    /\ style # fitType
    /\ fitType' = style
    /\ UNCHANGED << points, draggingPoint, ghostPoint, isTouchDrag, lastX, lastY,
                    imgDisplay, storage, gestureMoved, demoVars, pdfVars, reading >>
    /\ Silent
    /\ draw

clearBtnMutNoReset ==
    /\ points' = << >>
    /\ draggingPoint' = IF draggingPoint = {} THEN {} ELSE Detached
    /\ imgDisplay' = "none"
    /\ storage' = {}
    /\ demoLoading' = FALSE
    /\ imgPending' = "none"
    /\ imgNatural' = FALSE
    /\ placedBefore' = FALSE
    /\ UNCHANGED << ghostPoint, isTouchDrag, lastX, lastY, fitType, gestureMoved, pdfVars, reading >>
    /\ Silent
    /\ draw

clearBtnMutKeepFlag ==
    /\ points' = << >>
    /\ draggingPoint' = IF draggingPoint = {} THEN {} ELSE Detached
    /\ imgDisplay' = "none"
    /\ storage' = {}
    /\ demoLoading' = demoLoading
    /\ imgPending' = "none"
    /\ imgNatural' = FALSE
    /\ placedBefore' = FALSE
    /\ UNCHANGED << ghostPoint, isTouchDrag, lastX, lastY, fitType, gestureMoved, pdfVars, reading >>
    /\ Silent
    /\ drawFrom(<< >>)

\* The Clear button: the marker array is replaced by an empty one, the results
\* area is emptied, the demo flag is reset, the photo element loses its
\* callbacks and its source and is hidden, the saved session is removed from
\* storage, then draw() runs.  A marker still referenced by draggingPoint stays
\* referenced but is in no array any more.
clearBtn ==
    /\ points' = << >>
    /\ draggingPoint' = IF draggingPoint = {} THEN {} ELSE Detached
    /\ imgDisplay' = "none"
    /\ storage' = {}
    /\ demoLoading' = FALSE
    /\ imgPending' = "none"
    /\ imgNatural' = FALSE
    /\ placedBefore' = FALSE
    /\ UNCHANGED << ghostPoint, isTouchDrag, lastX, lastY, fitType, gestureMoved, pdfVars, reading >>
    /\ Silent
    /\ drawFrom(<< >>)

\* The photo chosen in the upload field has been read and has loaded: the
\* reader's callback gave the photo element a new source and a new onload
\* callback (a demo load in flight is superseded; demoLoading is not touched),
\* and that callback shows the photo and runs draw().
uploadOnload ==
    /\ imgDisplay' = "block"
    /\ imgNatural' = TRUE
    /\ imgPending' = "none"
    /\ placedBefore' = FALSE
    /\ UNCHANGED << points, draggingPoint, ghostPoint, isTouchDrag, lastX, lastY,
                    fitType, storage, gestureMoved, demoLoading, pdfVars, reading >>
    /\ Silent
    /\ draw

\* The upload field's change listener with a file chosen: a FileReader starts
\* reading it.
uploadChange ==
    /\ reading < MaxReads
    /\ reading' = reading + 1
    /\ UNCHANGED << points, draggingPoint, ghostPoint, isTouchDrag, lastX, lastY,
                    fitType, resultsArea, canvas, imgDisplay, storage, gestureMoved,
                    demoVars, pdfVars >>
    /\ Silent

\* reader.onload: the file has been read.  The photo element gets the data
\* URL as its source, which supersedes a load in flight, and the upload's
\* onload callback; demoLoading is not touched.  (The file is an image the
\* browser can decode.)
readerOnload ==
    /\ reading > 0
    /\ reading' = reading - 1
    /\ imgPending' = "upload"
    /\ placedBefore' = FALSE
    /\ UNCHANGED << points, draggingPoint, ghostPoint, isTouchDrag, lastX, lastY,
                    fitType, resultsArea, canvas, imgDisplay, storage, gestureMoved,
                    demoLoading, imgNatural, pdfVars >>
    /\ Silent

\* JSON.stringify(points): the text of an array of {"x":..,"y":..} objects,
\* held as the sequence of its number pairs.
JSONstringify(pts) == [k \in 1..Len(pts) |-> << pts[k].x, pts[k].y >>]

saveBtnMutNoCatch(setItemThrows) ==
    /\ Len(points) <= MaxSaved
    /\ storage' = IF setItemThrows THEN storage ELSE {JSONstringify(points)}
    /\ alertMsg' = IF setItemThrows THEN NoAlert ELSE SavedAlert
    /\ pdfSaved' = {}
    /\ UNCHANGED << points, draggingPoint, ghostPoint, isTouchDrag, lastX, lastY,
                    fitType, resultsArea, canvas, imgDisplay, gestureMoved,
                    demoVars, pdfVars, reading >>

\* The Save Session button: the marker positions are written to storage;
\* setItem may throw (storage full or disabled), which the handler catches,
\* leaving storage as it was.  Every path ends in an alert and changes nothing
\* else.
saveBtn(setItemThrows) ==
    /\ Len(points) <= MaxSaved
    /\ storage' = IF setItemThrows THEN storage ELSE {JSONstringify(points)}
    /\ alertMsg' = IF setItemThrows THEN SaveFailedAlert ELSE SavedAlert
    /\ pdfSaved' = {}
    /\ UNCHANGED << points, draggingPoint, ghostPoint, isTouchDrag, lastX, lastY,
                    fitType, resultsArea, canvas, imgDisplay, gestureMoved,
                    demoVars, pdfVars, reading >>

loadDemoImageMutNoGuard(clearMarkers) ==
    /\ demoLoading' = TRUE
    /\ imgPending' = "demo"
    /\ points' = IF clearMarkers THEN << >> ELSE points
    /\ placedBefore' = (Len(points') > 0)
    /\ draggingPoint' = IF clearMarkers /\ draggingPoint # {} THEN Detached ELSE draggingPoint
    /\ UNCHANGED << ghostPoint, isTouchDrag, lastX, lastY, fitType, resultsArea, canvas,
                    imgDisplay, storage, gestureMoved, imgNatural, pdfVars, reading >>
    /\ Silent

\* loadDemoImage(url, clearMarkers): ignored while a demo load is in flight;
\* otherwise the flag is set, the photo element gets the demo callbacks and the
\* demo URL, and the markers are dropped only when clearMarkers is set.  draw()
\* is not called here.
loadDemoImage(clearMarkers) ==
    /\ IF demoLoading
       THEN UNCHANGED << points, draggingPoint, demoLoading, imgPending, placedBefore >>
       ELSE /\ demoLoading' = TRUE
            /\ imgPending' = "demo"
            /\ points' = IF clearMarkers THEN << >> ELSE points
            /\ placedBefore' = (Len(points') > 0)
            /\ draggingPoint' = IF clearMarkers /\ draggingPoint # {} THEN Detached ELSE draggingPoint
    /\ UNCHANGED << ghostPoint, isTouchDrag, lastX, lastY, fitType, resultsArea, canvas,
                    imgDisplay, storage, gestureMoved, imgNatural, pdfVars, reading >>
    /\ Silent

demoBtnMutClear == loadDemoImage(TRUE)

\* The Demo button's listener: loadDemoImage(DEMO_URL, false).
demoBtn == loadDemoImage(FALSE)

\* img.onload installed by loadDemoImage: the demo image has loaded.
demoOnload ==
    /\ imgPending = "demo"
    /\ demoLoading' = FALSE
    /\ imgPending' = "none"
    /\ imgDisplay' = "block"
    /\ imgNatural' = TRUE
    /\ placedBefore' = FALSE
    /\ UNCHANGED << points, draggingPoint, ghostPoint, isTouchDrag, lastX, lastY,
                    fitType, storage, gestureMoved, pdfVars, reading >>
    /\ Silent
    /\ draw

demoOnerrorMutKeepFlag ==
    /\ imgPending = "demo"
    /\ demoLoading' = demoLoading
    /\ imgPending' = "none"
    /\ imgNatural' = FALSE
    /\ placedBefore' = FALSE
    /\ alertMsg' = DemoFailedAlert
    /\ pdfSaved' = {}
    /\ UNCHANGED << points, draggingPoint, ghostPoint, isTouchDrag, lastX, lastY,
                    fitType, resultsArea, canvas, imgDisplay, storage, gestureMoved,
                    pdfVars, reading >>

\* img.onerror installed by loadDemoImage: the demo image failed to load.  The
\* flag is cleared and the failure is reported; the photo element is left
\* without an image.
demoOnerror ==
    /\ imgPending = "demo"
    /\ demoLoading' = FALSE
    /\ imgPending' = "none"
    /\ imgNatural' = FALSE
    /\ placedBefore' = FALSE
    /\ alertMsg' = DemoFailedAlert
    /\ pdfSaved' = {}
    /\ UNCHANGED << points, draggingPoint, ghostPoint, isTouchDrag, lastX, lastY,
                    fitType, resultsArea, canvas, imgDisplay, storage, gestureMoved,
                    pdfVars, reading >>

\* ------------------------------------------------------------- PDF export

\* The export handler's own copy of the advice table.
pdfADVICE ==
    [ Knee     |-> [low |-> "RAISE saddle height",       high |-> "LOWER saddle height"],
      Back     |-> [low |-> "Higher bars (add spacers)", high |-> "Lower bars (remove spacers)"],
      Shoulder |-> [low |-> "Longer stem",               high |-> "Shorter stem"],
      Elbow    |-> [low |-> "Shorten reach",             high |-> "Increase reach"],
      Ankle    |-> [low |-> "Check cleat fore/aft",      high |-> "Check cleat fore/aft"] ]

\* jointDefs: the joints of the report in order, each with the condition under
\* which its calc() returns a number instead of null, and that number.
jointDefs ==
    << [name |-> "Ankle",    first |-> 0, last |-> 2],
       [name |-> "Knee",     first |-> 1, last |-> 3],
       [name |-> "Back",     first |-> 3, last |-> 4],
       [name |-> "Shoulder", first |-> 3, last |-> 5],
       [name |-> "Elbow",    first |-> 4, last |-> 6] >>

\* points[first] && ... && points[last]
calcHas(pts, def) == Len(pts) > def.last

calc(pts, def) ==
    CASE def.name = "Ankle"    -> calcAngleAt[At(pts, 0), At(pts, 1), At(pts, 2)]
      [] def.name = "Knee"     -> calcAngleAt[At(pts, 1), At(pts, 2), At(pts, 3)]
      [] def.name = "Back"     -> backAngleAt[At(pts, 3), At(pts, 4)]
      [] def.name = "Shoulder" -> calcAngleAt[At(pts, 3), At(pts, 4), At(pts, 5)]
      [] def.name = "Elbow"    -> elbowAngleAt[At(pts, 4), At(pts, 5), At(pts, 6)]

\* One row of tableRows: name, formatted angle (with its colour, green for in
\* range), ideal range and advice text.
tableRow(pts, def, fit) ==
    LET angle     == calc(pts, def)
        range     == IDEAL_RANGES[def.name][fit]
        isOk      == angle # NaN /\ angle >= range[1] * Micro /\ angle <= range[2] * Micro
        direction == IF angle # NaN /\ angle < range[1] * Micro THEN "low" ELSE "high"
    IN  [ name    |-> def.name,
          ok      |-> isOk,
          display |-> toFixed1(angle),
          range   |-> range,
          advice  |-> IF isOk THEN Optimal ELSE pdfADVICE[def.name][direction] ]

tableRowsMutGhost(pts, fit) ==
    LET shown == previewPoints(pts, draggingPoint, ghostPoint)
        defs  == SelectSeq(jointDefs, LAMBDA def : calcHas(shown, def))
    IN  [k \in 1..Len(defs) |-> tableRow(shown, defs[k], fit)]

\* tableRows: a row for every joint whose calc() is not null, in jointDefs order.
tableRows(pts, fit) ==
    LET defs == SelectSeq(jointDefs, LAMBDA def : calcHas(pts, def))
    IN  [k \in 1..Len(defs) |-> tableRow(pts, defs[k], fit)]

hasPhotoMutAlways == TRUE

\* The negation of the export handler's guard
\* !img.src || img.style.display === 'none' || !img.naturalWidth; an element
\* holding an image has a source.
hasPhoto == imgNatural /\ imgDisplay # "none"

\* The Download PDF button is clicked: without a photo the handler alerts and
\* returns; otherwise it disables the button, changes its label and enters
\* the try block.
pdfBtn ==
    /\ IF ~hasPhoto
       THEN /\ alertMsg' = NoPhotoAlert
            /\ UNCHANGED pdfVars
       ELSE /\ alertMsg' = NoAlert
            /\ pdfDisabled' = TRUE
            /\ pdfText' = GeneratingLabel
            /\ pdfRunning' = TRUE
    /\ pdfSaved' = {}
    /\ UNCHANGED << points, draggingPoint, ghostPoint, isTouchDrag, lastX, lastY,
                    fitType, resultsArea, canvas, imgDisplay, storage, gestureMoved,
                    demoVars, reading >>

pdfTryMutNoFinally(throws) ==
    /\ pdfRunning
    /\ pdfSaved' = IF throws THEN {} ELSE {tableRows(points, fitType)}
    /\ alertMsg' = IF throws THEN PdfFailedAlert ELSE NoAlert
    /\ pdfDisabled' = throws
    /\ pdfText' = IF throws THEN GeneratingLabel ELSE DefaultLabel
    /\ pdfRunning' = FALSE
    /\ UNCHANGED << points, draggingPoint, ghostPoint, isTouchDrag, lastX, lastY,
                    fitType, resultsArea, canvas, imgDisplay, storage, gestureMoved,
                    demoVars, reading >>

\* The try block of the export handler with its catch and finally: either the
\* report is built and saved, or a step throws, which is caught and reported;
\* both ways the finally block re-enables the button and restores its label.
pdfTry(throws) ==
    /\ pdfRunning
    /\ pdfSaved' = IF throws THEN {} ELSE {tableRows(points, fitType)}
    /\ alertMsg' = IF throws THEN PdfFailedAlert ELSE NoAlert
    /\ pdfDisabled' = FALSE
    /\ pdfText' = DefaultLabel
    /\ pdfRunning' = FALSE
    /\ UNCHANGED << points, draggingPoint, ghostPoint, isTouchDrag, lastX, lastY,
                    fitType, resultsArea, canvas, imgDisplay, storage, gestureMoved,
                    demoVars, reading >>

\* ------------------------------------------------------------ specification

Init ==
    /\ points = << >>
    /\ draggingPoint = {}
    /\ ghostPoint = {}
    /\ isTouchDrag = FALSE
    /\ lastX = 0
    /\ lastY = 0
    /\ fitType \in RidingStyles
    /\ resultsArea = << >>
    /\ canvas = [dots |-> << >>, labels |-> << >>, ghost |-> {}, loupe |-> FALSE]
    /\ imgDisplay = "none"
    /\ storage = {}
    /\ gestureMoved = FALSE
    /\ demoLoading = FALSE
    /\ imgPending = "none"
    /\ imgNatural = FALSE
    /\ placedBefore = FALSE
    /\ pdfDisabled = FALSE
    /\ pdfText = DefaultLabel
    /\ pdfRunning = FALSE
    /\ alertMsg = NoAlert
    /\ pdfSaved = {}
    /\ reading = 0
    /\ holds = << >>
    /\ moveType = ""
    /\ cleared = FALSE

\* The events of an environment that does not tell the pointers apart.
PointerDown     == (\E pos \in Locations, t \in PointerTypes : handleStart(pos, t)) /\ UNCHANGED envVars
PointerMove     == (\E pos \in Locations : handleMove(pos)) /\ UNCHANGED envVars
PointerMoveIdle == handleMoveIdle /\ UNCHANGED envVars
PointerUp       == handleEnd /\ UNCHANGED envVars

PointerCancelMutDiscard ==
    /\ ghostPoint' = {}
    /\ isTouchDrag' = FALSE
    /\ draggingPoint' = {}
    /\ gestureMoved' = FALSE
    /\ UNCHANGED << points, lastX, lastY, fitType, imgDisplay, storage, demoVars, pdfVars, reading >>
    /\ UNCHANGED envVars
    /\ Silent
    /\ draw

PointerCancel == handleEnd /\ UNCHANGED envVars
StyleChange   == (\E style \in RidingStyles : fitTypeChange(style)) /\ UNCHANGED envVars
Clear         == clearBtn /\ UNCHANGED envVars
ImageLoaded   == uploadOnload /\ UNCHANGED envVars
Save          == (\E setItemThrows \in BOOLEAN : saveBtn(setItemThrows)) /\ UNCHANGED envVars

Next ==
    \/ PointerDown
    \/ PointerMove
    \/ PointerMoveIdle
    \/ PointerUp
    \/ PointerCancel
    \/ StyleChange
    \/ Clear

\* The program with pointer events at Locations.
Spec == Init /\ [][Next]_vars

NextImage ==
    \/ PointerDown
    \/ PointerMove
    \/ PointerMoveIdle
    \/ PointerUp
    \/ PointerCancel
    \/ StyleChange
    \/ Clear
    \/ ImageLoaded

\* The program with pointer events at Locations and photo uploads.
SpecImage == Init /\ [][NextImage]_vars

NextSession ==
    \/ PointerDown
    \/ PointerMove
    \/ PointerMoveIdle
    \/ PointerUp
    \/ PointerCancel
    \/ StyleChange
    \/ Clear
    \/ Save

\* The program with pointer events at Locations and saved sessions.
SpecSession == Init /\ [][NextSession]_vars

DemoClick  == demoBtn /\ UNCHANGED envVars
DemoLoaded == demoOnload /\ UNCHANGED envVars
DemoFailed == demoOnerror /\ UNCHANGED envVars

NextDemo ==
    \/ PointerDown
    \/ PointerMove
    \/ PointerMoveIdle
    \/ PointerUp
    \/ PointerCancel
    \/ StyleChange
    \/ Clear
    \/ DemoClick
    \/ DemoLoaded
    \/ DemoFailed

\* The program with pointer events at Locations and the demo image.
SpecDemo == Init /\ [][NextDemo]_vars

PointerDownFar == (\E pos \in FarLocations, t \in PointerTypes : handleStart(pos, t)) /\ UNCHANGED envVars

\* The events of an environment that keeps track of what the user asked for
\* since the last Clear.
ClearSession == clearBtn /\ cleared' = TRUE /\ UNCHANGED << holds, moveType >>
DemoRequest  == demoBtn /\ cleared' = FALSE /\ UNCHANGED << holds, moveType >>
FileChosen   == uploadChange /\ cleared' = FALSE /\ UNCHANGED << holds, moveType >>
FileRead     == readerOnload /\ UNCHANGED envVars
UploadLoaded == imgPending = "upload" /\ uploadOnload /\ UNCHANGED envVars

NextUpload ==
    \/ PointerDownFar
    \/ PointerUp
    \/ ClearSession
    \/ Save
    \/ DemoRequest
    \/ DemoLoaded
    \/ DemoFailed
    \/ FileChosen
    \/ FileRead
    \/ UploadLoaded

\* The program with taps at FarLocations, the saved session, the demo image
\* and photo uploads whose file read and image load are steps of their own.
SpecUpload == Init /\ [][NextUpload]_vars

\* The pointers that are down, and the entry of one of them in holds.
Down == { holds[k].id : k \in DOMAIN holds }
HoldOf(id) == holds[CHOOSE k \in DOMAIN holds : holds[k].id = id]

\* The events of an environment that tells the pointers apart: the canvas
\* captures every pointer that goes down on it, so it receives the moves and
\* the release of each of them.  pointerdown of a pointer that is up:
Press(id) ==
    /\ id \notin Down
    /\ \E pos \in Locations, t \in PointerTypes :
          /\ handleStart(pos, t)
          /\ holds' = Append(holds, [id    |-> id,
                                     type  |-> t,
                                     index |-> IF draggingPoint' = {} THEN 0
                                               ELSE CHOOSE i \in draggingPoint' : TRUE])
    /\ moveType' = ""
    /\ cleared' = cleared

\* pointermove of a pointer that is down.
MoveOf(id) ==
    /\ id \in Down
    /\ \/ (\E pos \in Locations : handleMove(pos)) /\ moveType' = HoldOf(id).type
       \/ handleMoveIdle /\ moveType' = moveType
    /\ holds' = holds
    /\ cleared' = cleared

\* pointerup or pointercancel of a pointer that is down.
Release(id) ==
    /\ id \in Down
    /\ handleEnd
    /\ holds' = SelectSeq(holds, LAMBDA h : h.id # id)
    /\ moveType' = ""
    /\ cleared' = cleared

PointerPress   == \E id \in PointerIds : Press(id)
PointerMoveOf  == \E id \in PointerIds : MoveOf(id)
PointerRelease == \E id \in PointerIds : Release(id)

NextPointers ==
    \/ PointerPress
    \/ PointerMoveOf
    \/ PointerRelease
    \/ ImageLoaded

\* The pointer handlers do not read the riding style: one style is enough.
InitPointers == Init /\ fitType = "Balanced"

\* The program with up to NumPointers pointers on the canvas at a time (two
\* fingers, or a finger and a mouse) and a photo.
SpecPointers == InitPointers /\ [][NextPointers]_vars

ExportClick == ~pdfRunning /\ pdfBtn /\ UNCHANGED envVars
ExportRun   == (\E throws \in BOOLEAN : pdfTry(throws)) /\ UNCHANGED envVars

\* The export handler runs to completion once started: no other handler runs
\* between its entry into the try block and its finally block.
NextExport ==
    \/ ~pdfRunning /\ PointerDown
    \/ ~pdfRunning /\ PointerMove
    \/ ~pdfRunning /\ PointerMoveIdle
    \/ ~pdfRunning /\ PointerUp
    \/ ~pdfRunning /\ PointerCancel
    \/ ~pdfRunning /\ StyleChange
    \/ ~pdfRunning /\ Clear
    \/ ~pdfRunning /\ ImageLoaded
    \/ ExportClick
    \/ ExportRun

\* The program with pointer events at Locations, photo uploads and PDF export.
SpecExport == Init /\ [][NextExport]_vars

\* The same, with the handler that has entered its try block always running
\* on to its end.
SpecExportLive == SpecExport /\ WF_vars(ExportRun)

\* Three markers placed anywhere on AngleInputs, drawn.
InitAngle ==
    /\ points \in [1..3 -> AngleInputs]
    /\ draggingPoint = {}
    /\ ghostPoint = {}
    /\ isTouchDrag = FALSE
    /\ lastX = 0
    /\ lastY = 0
    /\ fitType \in RidingStyles
    /\ resultsArea = updateTable(angleData(points, fitType))
    /\ canvas = drawCanvas(points, angleData(points, fitType), {}, FALSE)
    /\ imgDisplay = "none"
    /\ storage = {}
    /\ gestureMoved = FALSE
    /\ demoLoading = FALSE
    /\ imgPending = "none"
    /\ imgNatural = FALSE
    /\ placedBefore = FALSE
    /\ pdfDisabled = FALSE
    /\ pdfText = DefaultLabel
    /\ pdfRunning = FALSE
    /\ alertMsg = NoAlert
    /\ pdfSaved = {}
    /\ reading = 0
    /\ holds = << >>
    /\ moveType = ""
    /\ cleared = FALSE

NextAngle ==
    \/ StyleChange
    \/ ImageLoaded

\* The angle calculation applied, by the redraws of a style change and of a
\* photo upload, to three markers at any positions of AngleInputs.
SpecAngle == InitAngle /\ [][NextAngle]_vars

PointerDownNear == (\E pos \in NearLocations, t \in PointerTypes : handleStart(pos, t)) /\ UNCHANGED envVars
PointerMoveNear == (\E pos \in NearLocations : handleMove(pos)) /\ UNCHANGED envVars

NextNear ==
    \/ PointerDownNear
    \/ PointerMoveNear
    \/ PointerMoveIdle
    \/ PointerUp
    \/ PointerCancel
    \/ StyleChange
    \/ Clear

\* The program with pointer events at NearLocations.
SpecNear == Init /\ [][NextNear]_vars

\* ------------------------------------------------------------- properties

\* The last recorded pointer position.
LastPointer == [x |-> lastX, y |-> lastY]

\* The active marker is an element of points.
ActiveInPoints == draggingPoint # {} /\ draggingPoint \subseteq DOMAIN points

\* Its position in points.
ActiveIndex == CHOOSE i \in draggingPoint : TRUE

\* A pointermove or a release, at any of the pointer locations.
AnyMove == \E pos \in NearLocations : handleMove(pos)
AnyEnd  == PointerUp \/ PointerCancel

\* Euclidean distance below the 25 px capture radius.
WithinRadius(p, q) ==
    ((p.x - q.x) * (p.x - q.x)) + ((p.y - q.y) * (p.y - q.y)) < CaptureRadius * CaptureRadius

\* C1: whatever gestures, style changes and clears have happened, the landmark
\* sequence never holds more than 7 points.
C1_Capacity == Len(points) <= MAX_POINTS

\* A touch press on a full sequence, away from every marker, has been handled.
C1_Witness == Len(points) = MAX_POINTS /\ isTouchDrag /\ draggingPoint = {}

\* C2: when a drag of a marker of the sequence that has seen at least one move
\* is released, the marker's committed coordinates are those of the last move
\* event, and no marker is added or removed.
C2_CommitFidelity ==
    [][ (AnyEnd /\ gestureMoved /\ ActiveInPoints)
          => /\ Len(points') = Len(points)
             /\ points'[ActiveIndex] = LastPointer ]_vars

\* A drag has been released onto the place of an earlier marker: only a commit
\* puts two markers in the same place.
C2_Witness ==
    /\ draggingPoint = {}
    /\ ghostPoint = {}
    /\ \E i, j \in DOMAIN points : i < j /\ points[i] = points[j] /\ points[j] = LastPointer

\* C3 as stated: the ghost point is present exactly when an active point is set.
C3_GhostIffDragging == (ghostPoint # {}) <=> (draggingPoint # {})

\* C3 amended: the ghost point is present exactly when an active point is set
\* and a move of its gesture has been handled; from the press to the first move
\* the active point is set and the ghost point is absent.
C3_GhostIffMovedDrag == (ghostPoint # {}) <=> (draggingPoint # {} /\ gestureMoved)

\* A marker has been pressed and no move has arrived yet.
C3_Witness == ActiveInPoints /\ ghostPoint = {} /\ ~gestureMoved /\ Len(points) >= 2

\* C4: a move with an active point, and any step that sets or moves the ghost
\* point, leaves the landmark sequence (length and every coordinate), the
\* active point reference, the touch flag and the riding style as they were.
C4_MoveFrame ==
    [][ (AnyMove \/ (ghostPoint' # {} /\ ghostPoint' # ghostPoint))
          => /\ points' = points
             /\ draggingPoint' = draggingPoint
             /\ isTouchDrag' = isTouchDrag
             /\ fitType' = fitType
             /\ ghostPoint' = {LastPointer'} ]_vars

\* Mid-drag, the ghost is at the pointer while the dragged marker is elsewhere.
C4_Witness ==
    /\ ActiveInPoints
    /\ ghostPoint = {LastPointer}
    /\ points[ActiveIndex] # LastPointer

\* The landmark sequence a release leaves, told from the last move's location.
ReleasedPoints ==
    IF gestureMoved /\ ActiveInPoints
    THEN [points EXCEPT ![ActiveIndex] = LastPointer]
    ELSE points

\* C5: the displayed angle results do not depend on where the ghost point is or
\* has been: a move changes neither the table nor the labels, which stay those
\* of the committed sequence, and after a release they are the results of the
\* sequence with the dragged marker at the final location.
C5_GhostNotInAngles ==
    [][ /\ AnyMove => /\ resultsArea' = resultsArea
                      /\ canvas'.labels = canvas.labels
                      /\ resultsArea' = updateTable(angleData(points, fitType))
        /\ AnyEnd  => resultsArea' = updateTable(angleData(ReleasedPoints, fitType)) ]_vars

\* Mid-drag with results shown, the ghost is where the dragged marker would
\* give other results.
C5_Witness ==
    /\ Len(resultsArea) >= 1
    /\ ActiveInPoints
    /\ ghostPoint # {}
    /\ angleData(previewPoints(points, draggingPoint, ghostPoint), fitType) # angleData(points, fitType)

\* C6: between handlers, the results table and the overlay labels are those
\* derived from the committed landmark sequence and the selected riding style,
\* and the overlay shows the committed markers.
C6_NeverStale ==
    /\ resultsArea = updateTable(angleData(points, fitType))
    /\ canvas.labels = [k \in 1..Len(resultsArea) |->
                           [name    |-> resultsArea[k].name,
                            display |-> resultsArea[k].display,
                            ok      |-> resultsArea[k].ok]]
    /\ canvas.dots = points

\* All five joints are shown, one of them in range, in the middle of a drag.
C6_Witness ==
    /\ Len(resultsArea) = 5
    /\ \E k \in 1..5 : resultsArea[k].ok
    /\ ghostPoint # {}

\* A pointerdown at any of the pointer locations satisfies R(pos).
StartSatisfies(R(_)) ==
    \A pos \in NearLocations, t \in PointerTypes : handleStart(pos, t) => R(pos)

\* The markers within the capture radius of pos, by position in the sequence.
InRadius(pos) == { i \in DOMAIN points : WithinRadius(points[i], pos) }

SquaredDistance(p, q) == ((p.x - q.x) * (p.x - q.x)) + ((p.y - q.y) * (p.y - q.y))

\* The marker nearest to pos among those in the radius, the first of several
\* equally near ones.
NearestInRadius(pos) ==
    CHOOSE i \in InRadius(pos) :
        \A j \in InRadius(pos) :
            \/ SquaredDistance(points[i], pos) < SquaredDistance(points[j], pos)
            \/ SquaredDistance(points[i], pos) = SquaredDistance(points[j], pos) /\ i <= j

\* The first marker, in sequence order, in the radius.
FirstInRadius(pos) == CHOOSE i \in InRadius(pos) : \A j \in InRadius(pos) : i <= j

\* C7 as stated: a press with markers in the capture radius makes the nearest
\* of them (the first of equally near ones) the active point, and appends none.
C7_NearestCaptured ==
    [][ StartSatisfies(LAMBDA pos :
            InRadius(pos) # {} =>
                /\ draggingPoint' = {NearestInRadius(pos)}
                /\ points' = points) ]_vars

\* C7 amended: a press with markers in the capture radius makes the first of
\* them in sequence order the active point, nearer ones notwithstanding, and
\* appends none.
C7_FirstCaptured ==
    [][ StartSatisfies(LAMBDA pos :
            InRadius(pos) # {} =>
                /\ draggingPoint' = {FirstInRadius(pos)}
                /\ points' = points) ]_vars

\* A press has captured a marker although a later marker was nearer to it.
C7_Witness ==
    /\ ActiveInPoints
    /\ ghostPoint = {}
    /\ ~gestureMoved
    /\ WithinRadius(points[ActiveIndex], LastPointer)
    /\ \E j \in DOMAIN points :
          /\ j > ActiveIndex
          /\ SquaredDistance(points[j], LastPointer) < SquaredDistance(points[ActiveIndex], LastPointer)

\* C8: a press with no marker in the capture radius and fewer than 7 markers
\* appends exactly one marker, at the end and at the press location, makes it
\* the active point, and leaves every earlier marker at its index and place.
C8_AppendOnEmptySpace ==
    [][ StartSatisfies(LAMBDA pos :
            (InRadius(pos) = {} /\ Len(points) < MAX_POINTS) =>
                /\ Len(points') = Len(points) + 1
                /\ points'[Len(points) + 1] = pos
                /\ \A i \in DOMAIN points : points'[i] = points[i]
                /\ draggingPoint' = {Len(points) + 1}) ]_vars

\* The last marker has just been placed by a press away from the others, one
\* of which is out of the capture radius by less than its width.
C8_Witness ==
    /\ Len(points) >= 2
    /\ draggingPoint = {Len(points)}
    /\ ghostPoint = {}
    /\ points[Len(points)] = LastPointer
    /\ \A i \in 1..(Len(points) - 1) : ~WithinRadius(points[i], LastPointer)
    /\ \E i \in 1..(Len(points) - 1) :
          SquaredDistance(points[i], LastPointer) < (2 * CaptureRadius) * (2 * CaptureRadius)

\* C9: a press on a full sequence with no marker in the capture radius only
\* records the pointer position: the sequence is unchanged, no active point is
\* set and the ghost point is absent; and while no active point is set, moves
\* and releases change no marker and set no ghost point.
C9_FullNoEffect ==
    [][ /\ StartSatisfies(LAMBDA pos :
              (InRadius(pos) = {} /\ Len(points) = MAX_POINTS) =>
                  /\ points' = points
                  /\ draggingPoint' = {}
                  /\ ghostPoint' = {}
                  /\ LastPointer' = pos)
        /\ (draggingPoint = {} /\ (AnyMove \/ handleMoveIdle \/ AnyEnd)) =>
              /\ points' = points
              /\ draggingPoint' = {}
              /\ ghostPoint' = {} ]_vars

\* A touch press on a full sequence, out of the capture radius of all seven
\* markers, has been handled.
C9_Witness ==
    /\ Len(points) = MAX_POINTS
    /\ InRadius(LastPointer) = {}
    /\ draggingPoint = {}
    /\ ghostPoint = {}
    /\ isTouchDrag

\* C10: a release or cancel leaves no ghost point, no active point and the touch
\* flag off, whatever the state it arrives in; a ghost point that existed has
\* been copied into the active marker.
C10_EndReturnsToIdle ==
    [][ AnyEnd =>
          /\ ghostPoint' = {}
          /\ draggingPoint' = {}
          /\ isTouchDrag' = FALSE
          /\ (ghostPoint # {} /\ ActiveInPoints) => ghostPoint = {points'[ActiveIndex]} ]_vars

\* A touch drag onto the place of the first marker has ended.
C10_Witness ==
    /\ Len(points) = 3
    /\ points[1] = points[3]
    /\ points[3] = LastPointer
    /\ draggingPoint = {}
    /\ ghostPoint = {}
    /\ ~isTouchDrag

\* C11: from every state, a pointercancel has exactly the successor states a
\* pointerup has, and like it commits the staged ghost position into the active
\* marker and leaves no active point and no ghost point.
C11_CancelAsRelease ==
    [][ /\ PointerCancel <=> PointerUp
        /\ PointerCancel =>
              /\ draggingPoint' = {}
              /\ ghostPoint' = {}
              /\ (ghostPoint # {} /\ ActiveInPoints) => {points'[ActiveIndex]} = ghostPoint ]_vars

\* A drag of the second of two markers onto the first has been ended.
C11_Witness ==
    /\ Len(points) = 2
    /\ points[1] = points[2]
    /\ points[2] = LastPointer
    /\ draggingPoint = {}
    /\ ghostPoint = {}
    /\ ~gestureMoved

\* C12: a release or cancel with no move handled since the press changes no
\* coordinate of the landmark sequence: a marker the press placed stays at the
\* press location, and a marker the press captured stays where it was.
C12_TapCommitsNothing ==
    [][ /\ (AnyEnd /\ ~gestureMoved) => points' = points
        /\ StartSatisfies(LAMBDA pos :
              /\ Len(points') > Len(points) => points'[Len(points')] = pos
              /\ \A i \in DOMAIN points : points'[i] = points[i]) ]_vars

\* A tap inside the capture radius of a marker, but not on it, has ended: no
\* marker is at the tap location.
C12_Witness ==
    /\ draggingPoint = {}
    /\ ghostPoint = {}
    /\ ~gestureMoved
    /\ Len(points) >= 2
    /\ \E i \in DOMAIN points : WithinRadius(points[i], LastPointer) /\ points[i] # LastPointer
    /\ \A i \in DOMAIN points : points[i] # LastPointer

\* The joints in the order of the results, with the indices each one needs.
JointOrder == << "Ankle", "Knee", "Back", "Shoulder", "Elbow" >>

RequiredIndices ==
    [ Ankle |-> {0, 1, 2}, Knee |-> {1, 2, 3}, Back |-> {3, 4},
      Shoulder |-> {3, 4, 5}, Elbow |-> {4, 5, 6} ]

\* The joints whose required indices are all below n, in result order.
ExpectedJoints(n) == SelectSeq(JointOrder, LAMBDA j : \A k \in RequiredIndices[j] : k < n)

\* The joint names of a sequence of rows or labels.
NamesOf(rows) == [k \in 1..Len(rows) |-> rows[k].name]

\* The angle of a joint, from the markers at its required indices.
ExpectedAngle(j, pts) ==
    CASE j = "Ankle"    -> calcAngle(At(pts, 0), At(pts, 1), At(pts, 2))
      [] j = "Knee"     -> calcAngle(At(pts, 1), At(pts, 2), At(pts, 3))
      [] j = "Back"     -> backAngle(At(pts, 3), At(pts, 4))
      [] j = "Shoulder" -> calcAngle(At(pts, 3), At(pts, 4), At(pts, 5))
      [] j = "Elbow"    -> elbowAngle(At(pts, 4), At(pts, 5), At(pts, 6))

\* C13: for a landmark sequence of length n, the results table and the overlay
\* labels list exactly the joints whose required indices are all below n, in
\* the order Ankle, Knee, Back, Shoulder, Elbow: max(0, n - 2) of them, each
\* with the angle of the markers at its required indices.
C13_PerJointDerivation ==
    LET n == Len(points)
    IN  /\ NamesOf(resultsArea) = ExpectedJoints(n)
        /\ NamesOf(canvas.labels) = ExpectedJoints(n)
        /\ Len(resultsArea) = IF n >= 2 THEN n - 2 ELSE 0
        /\ \A k \in 1..Len(resultsArea) :
              resultsArea[k].display = toFixed1(ExpectedAngle(resultsArea[k].name, points))

\* Five markers are placed: Back is derived, Shoulder and Elbow are not.
C13_Witness ==
    /\ Len(points) = 5
    /\ NamesOf(resultsArea) = << "Ankle", "Knee", "Back" >>
    /\ NamesOf(canvas.labels) = << "Ankle", "Knee", "Back" >>

\* A comparison of JavaScript numbers in micro-degrees; false with a NaN.
IsNumber(a) == a # NaN

\* min <= a <= max for an interval given in whole degrees.
InClosedInterval(a, range) ==
    IsNumber(a) /\ range[1] * Micro <= a /\ a <= range[2] * Micro

\* Values at and next to the ends of an interval, and NaN.
EdgeValues(range) ==
    { range[1] * Micro - 1, range[1] * Micro, range[1] * Micro + 1,
      range[2] * Micro - 1, range[2] * Micro, range[2] * Micro + 1, NaN }

\* The angle data behind the rows shown.
ShownData == angleData(points, fitType)

\* C14: a result is marked within range exactly when min <= degrees <= max for
\* its joint's interval under the selected riding style; a value equal to min
\* or to max is within range.
C14_ClosedInterval ==
    /\ Len(resultsArea) = Len(ShownData)
    /\ \A k \in 1..Len(resultsArea) :
          LET m == ShownData[k]
          IN  /\ resultsArea[k].ok <=> InClosedInterval(m.angle, IDEAL_RANGES[m.name][fitType])
              /\ canvas.labels[k].ok <=> InClosedInterval(m.angle, IDEAL_RANGES[m.name][fitType])
    /\ \A j \in DOMAIN IDEAL_RANGES, st \in RidingStyles :
          \A a \in EdgeValues(IDEAL_RANGES[j][st]) :
              isOkOf(a, IDEAL_RANGES[j][st]) <=> InClosedInterval(a, IDEAL_RANGES[j][st])

\* A result whose value equals the minimum of its interval is shown in range.
C14_Witness ==
    \E k \in 1..Len(resultsArea) :
        /\ resultsArea[k].ok
        /\ ShownData[k].angle = resultsArea[k].range[1] * Micro

\* a < b and a > b on JavaScript numbers; false with a NaN.
Below(a, b) == IsNumber(a) /\ a < b
Above(a, b) == IsNumber(a) /\ a > b

\* C15 as stated: an out-of-range result is either below its minimum and shows
\* the joint's low advice, or above its maximum and shows the joint's high
\* advice; an in-range result shows the optimal marker.
C15_AdviceByDirection ==
    \A k \in 1..Len(resultsArea) :
        LET m == ShownData[k]
            r == IDEAL_RANGES[m.name][fitType]
        IN  IF resultsArea[k].ok
            THEN resultsArea[k].advice = Optimal
            ELSE \/ Below(m.angle, r[1] * Micro) /\ resultsArea[k].advice = ADVICE[m.name].low
                 \/ Above(m.angle, r[2] * Micro) /\ resultsArea[k].advice = ADVICE[m.name].high

\* C15 with the NaN results set apart: an out-of-range result below its minimum shows the joint's low
\* advice; any other out-of-range result shows the joint's high advice, and its
\* value is then above the maximum or is NaN (two markers of the joint
\* coincide); an in-range result shows the optimal marker.
C15_AdviceByDirectionOrNaN ==
    \A k \in 1..Len(resultsArea) :
        LET m == ShownData[k]
            r == IDEAL_RANGES[m.name][fitType]
        IN  IF resultsArea[k].ok
            THEN resultsArea[k].advice = Optimal
            ELSE \/ Below(m.angle, r[1] * Micro) /\ resultsArea[k].advice = ADVICE[m.name].low
                 \/ /\ Above(m.angle, r[2] * Micro) \/ ~IsNumber(m.angle)
                    /\ resultsArea[k].advice = ADVICE[m.name].high

\* The table shows a result in range, one below its minimum, one above its
\* maximum and one that is NaN.
C15_Witness ==
    /\ \E k \in 1..Len(resultsArea) : resultsArea[k].advice = Optimal
    /\ \E k \in 1..Len(resultsArea) :
          Below(ShownData[k].angle, resultsArea[k].range[1] * Micro)
    /\ \E k \in 1..Len(resultsArea) :
          Above(ShownData[k].angle, resultsArea[k].range[2] * Micro)
    /\ \E k \in 1..Len(resultsArea) :
          ~IsNumber(ShownData[k].angle) /\ resultsArea[k].advice = ADVICE[resultsArea[k].name].high

\* The joints, and the bicycle types the design document names.
Joints == {"Ankle", "Knee", "Back", "Shoulder", "Elbow"}

BicycleTypes == {"Road", "Gravel", "MTB"}

\* C16 as stated: with any riding style selected, the range table resolves
\* every joint, bicycle type and riding style to one interval [min, max].
C16_TotalOverBicycleTypes ==
    /\ fitType \in RidingStyles
    /\ \A j \in Joints, b \in BicycleTypes, st \in RidingStyles :
          /\ j \in DOMAIN IDEAL_RANGES
          /\ b \in DOMAIN IDEAL_RANGES[j]
          /\ st \in DOMAIN IDEAL_RANGES[j][b]
          /\ Len(IDEAL_RANGES[j][b][st]) = 2

\* C16 amended: the range table is keyed by joint and riding style only; it
\* resolves every joint and riding style to one interval [min, max] with
\* min <= max, and every result shown carries the interval of its joint under
\* the selected riding style.
C16_TotalOverStyles ==
    /\ DOMAIN IDEAL_RANGES = Joints
    /\ \A j \in Joints :
          /\ DOMAIN IDEAL_RANGES[j] = RidingStyles
          /\ \A st \in RidingStyles :
                /\ Len(IDEAL_RANGES[j][st]) = 2
                /\ IDEAL_RANGES[j][st][1] <= IDEAL_RANGES[j][st][2]
    /\ fitType \in RidingStyles
    /\ \A k \in 1..Len(resultsArea) :
          /\ resultsArea[k].name \in Joints
          /\ resultsArea[k].range = IDEAL_RANGES[resultsArea[k].name][fitType]

\* All five joints are shown with their intervals for the Aggressive style.
C16_Witness ==
    /\ fitType = "Aggressive"
    /\ Len(resultsArea) = 5
    /\ resultsArea[5].range = << 20, 30 >>

\* The rows of the results table for the markers pts under the style fit.
RowsFor(pts, fit) == updateTable(angleData(pts, fit))

\* C17: a change of riding style leaves the landmark sequence, the active point,
\* the ghost point and the touch flag unchanged and every result's joint and
\* degrees as shown before, while each result's interval, in-range mark and
\* advice are those of the newly selected style.
C17_StyleChangeFrame ==
    [][ StyleChange =>
          /\ points' = points
          /\ draggingPoint' = draggingPoint
          /\ ghostPoint' = ghostPoint
          /\ isTouchDrag' = isTouchDrag
          /\ Len(resultsArea') = Len(resultsArea)
          /\ \A k \in 1..Len(resultsArea) :
                LET row == resultsArea'[k]
                    a   == ExpectedAngle(row.name, points)
                    r   == IDEAL_RANGES[row.name][fitType']
                IN  /\ row.name = resultsArea[k].name
                    /\ row.display = resultsArea[k].display
                    /\ canvas'.labels[k].display = canvas.labels[k].display
                    /\ row.range = r
                    /\ row.ok <=> InClosedInterval(a, r)
                    /\ canvas'.labels[k].ok <=> InClosedInterval(a, r)
                    /\ row.advice = RowsFor(points, fitType')[k].advice ]_vars

\* In the middle of a drag the table shows a result that is in range under the
\* selected style and out of range under another one.
C17_Witness ==
    /\ ghostPoint # {}
    /\ ActiveInPoints
    /\ \E k \in 1..Len(resultsArea), st \in RidingStyles :
          /\ resultsArea[k].ok
          /\ ~RowsFor(points, st)[k].ok

\* C18: a redraw with no change of the markers before it (the photo's load
\* callback) leaves the results table and the overlay's dots, labels and ghost
\* as the previous redraw left them, and changes neither the landmark sequence
\* nor the ghost point nor the active point.  (The loupe shows the photo, which
\* this callback has just changed.)
C18_RedrawIdempotent ==
    [][ ImageLoaded =>
          /\ resultsArea' = resultsArea
          /\ canvas'.dots = canvas.dots
          /\ canvas'.labels = canvas.labels
          /\ canvas'.ghost = canvas.ghost
          /\ points' = points
          /\ ghostPoint' = ghostPoint
          /\ draggingPoint' = draggingPoint ]_vars

\* The photo has loaded, and all five results and a ghost point are drawn.
C18_Witness ==
    /\ imgDisplay = "block"
    /\ Len(resultsArea) = 5
    /\ canvas.ghost # {}
    /\ ActiveInPoints

\* C19: a landmark sequence that has been saved can be restored after a clear:
\* the clear leaves the saved snapshot, with its k points at their coordinates
\* and in their order, in storage.
C19_SnapshotSurvivesClear ==
    [][ (Clear /\ Len(points) >= 1 /\ storage = {JSONstringify(points)})
          => storage' = {JSONstringify(points)} ]_vars

\* C20: every step keeps the length of the landmark sequence and the place of
\* every marker but the active one, or appends one marker at the end leaving
\* the others at their indices and places, or replaces the sequence as a whole
\* (a clear); no marker is removed singly and none changes its index.
C20_AppendOnly ==
    [][ \/ /\ Len(points') = Len(points)
           /\ \A i \in DOMAIN points : i \notin draggingPoint => points'[i] = points[i]
        \/ /\ Len(points') = Len(points) + 1
           /\ \A i \in DOMAIN points : points'[i] = points[i]
        \/ Clear /\ points' = << >> ]_vars

\* A second marker has just been appended behind a first one placed elsewhere.
C20_Witness ==
    /\ Len(points) = 2
    /\ points[1] # points[2]
    /\ draggingPoint = {2}
    /\ ghostPoint = {}
    /\ ~gestureMoved
    /\ points[2] = LastPointer

\* C21 as stated: loading the demo replaces the marker sequence entirely: when
\* a demo load completes, no marker placed before it was requested remains.
C21_DemoReplaces == [][DemoLoaded => ~placedBefore]_vars

\* C21, amended: loading the demo keeps the marker sequence: neither the
\* request (made with clearMarkers false), nor the completion, nor the failure
\* of a demo load changes it, and the markers placed before the request are
\* all still there when the load completes.
C21_DemoKeepsMarkers ==
    [][(DemoClick \/ DemoLoaded \/ DemoFailed) =>
          /\ points' = points
          /\ (DemoLoaded /\ placedBefore => Len(points') > 0)
          /\ (DemoClick /\ ~demoLoading => placedBefore' = (Len(points) > 0))]_vars

\* A demo load has completed, showing the demo image, with markers in place.
C21_Witness ==
    /\ imgNatural /\ imgDisplay = "block" /\ ~demoLoading /\ imgPending = "none"
    /\ Len(points) >= 3
    /\ Len(resultsArea) >= 1

\* C22: the live path and the export path derive the same results from the
\* same committed markers and riding style: the rows of a saved report are
\* the rows of the results table (same joints, same order, same formatted
\* degrees, range, classification and advice), computed from points alone
\* even while a ghost is shown.
C22_ExportMatchesLive ==
    [][ExportRun /\ alertMsg' = NoAlert =>
          /\ pdfSaved' = {resultsArea}
          /\ pdfSaved' = {updateTable(angleData(points, fitType))}]_vars

\* A report with measurements has just been saved while a drag preview was
\* showing the dragged marker away from its committed position.
C22_Witness ==
    /\ \E rows \in pdfSaved : Len(rows) >= 1
    /\ ActiveInPoints
    /\ ghostPoint # {}
    /\ ghostPoint # {points[ActiveIndex]}

C24_ExportControl ==
    /\ [](pdfRunning => pdfDisabled /\ pdfText = GeneratingLabel)
    /\ [](~pdfRunning => ~pdfDisabled /\ pdfText = DefaultLabel)
    /\ [][ExportRun => ~pdfDisabled' /\ pdfText' = DefaultLabel]_vars
    /\ (pdfRunning ~> (~pdfRunning /\ ~pdfDisabled /\ pdfText = DefaultLabel))

\* An export that threw has just ended: the failure is reported and the
\* control is enabled under its default label.
C24_Witness ==
    /\ alertMsg = PdfFailedAlert
    /\ ~pdfRunning
    /\ ~pdfDisabled
    /\ pdfText = DefaultLabel
    /\ Len(points) >= 1

\* No photo is loaded and shown in the photo element.
NoImageLoaded == ~imgNatural \/ imgDisplay = "none"

\* C25: an export requested while no image is loaded shows the message asking
\* for a photo and aborts with no other effect: no report is saved, the
\* control stays enabled under its default label, and markers, gesture state,
\* style, results, overlay and storage are as before.
C25_ExportNeedsImage ==
    [][ExportClick /\ NoImageLoaded =>
          /\ alertMsg' = NoPhotoAlert
          /\ pdfSaved' = {}
          /\ ~pdfRunning' /\ ~pdfDisabled' /\ pdfText' = DefaultLabel
          /\ UNCHANGED << points, draggingPoint, ghostPoint, isTouchDrag, lastX, lastY,
                          fitType, resultsArea, canvas, imgDisplay, storage,
                          imgNatural, demoLoading, imgPending >>]_vars

\* The message asking for a photo has just been shown, with markers placed and
\* no photo loaded.
C25_Witness ==
    /\ alertMsg = NoPhotoAlert
    /\ NoImageLoaded
    /\ Len(points) >= 3
    /\ pdfSaved = {}
    /\ ~pdfDisabled

\* C26: a save whose write to storage fails is reported with the message that
\* the session could not be saved, and changes nothing: markers, ghost, active
\* marker, riding style, results, overlay and the stored snapshot stay as
\* they were, and the handlers keep running.
C26_SaveFailureHarmless ==
    [][saveBtn(TRUE) =>
          /\ alertMsg' = SaveFailedAlert
          /\ UNCHANGED << points, ghostPoint, draggingPoint, isTouchDrag, fitType,
                          resultsArea, canvas, storage, imgDisplay >>]_vars

\* A save has just failed during a drag preview, an earlier snapshot being
\* still stored.
C26_Witness ==
    /\ alertMsg = SaveFailedAlert
    /\ storage # {}
    /\ Len(points) >= 2
    /\ ActiveInPoints
    /\ ghostPoint # {}

\* C27: a demo image that fails to load is reported and the loading flag is
\* cleared; a demo request made while the flag is clear is not ignored but
\* starts a new load, so a request after a failure does.
C27_DemoFailureRetry ==
    [][ /\ DemoFailed =>
              /\ alertMsg' = DemoFailedAlert
              /\ ~demoLoading'
              /\ imgPending' = "none"
        /\ (DemoClick /\ ~demoLoading) =>
              /\ demoLoading'
              /\ imgPending' = "demo"
        /\ (alertMsg = DemoFailedAlert /\ DemoClick) =>
              /\ demoLoading'
              /\ imgPending' = "demo" ]_vars

\* A demo load is in flight that was requested after an earlier demo load
\* had failed (the photo element is shown but holds no image).
C27_Witness ==
    /\ demoLoading
    /\ imgPending = "demo"
    /\ imgDisplay = "block"
    /\ ~imgNatural

\* The marker at index i (from 0) is the vertex of a vertex angle: all joints
\* but Back, which is an inclination.
VertexJoints == {1, 2, 4, 5}

\* C28: whenever a vertex angle is computed, its vertex differs from both
\* outer points.
C28_CallersDistinct ==
    \A i \in VertexJoints :
        HasAngle(points, i) =>
            /\ At(points, i) # At(points, i - 1)
            /\ At(points, i) # At(points, i + 1)

\* The three markers of the first joint.
OuterA == points[1]
Vertex == points[2]
OuterC == points[3]

\* The first row of the results table is the row of the first joint.
AnkleRow == resultsArea[1]

Collinear(a, b, c) == ((a.x - b.x) * (c.y - b.y)) - ((a.y - b.y) * (c.x - b.x)) = 0

Between(a, b, c) == ((a.x - b.x) * (c.x - b.x)) + ((a.y - b.y) * (c.y - b.y)) < 0

C31_LoupeOnlyForTouch ==
    canvas.loupe => (ghostPoint # {} /\ moveType = "touch")

\* C34: with pointer A pressed on a marker and pointer B pressed later on
\* another marker Q while A is still down, no move and no release of A
\* changes the committed coordinates of Q.
C34_PointerIsolation ==
    [][\A a, b \in DOMAIN holds :
          ( /\ a < b
            /\ holds[a].index # 0
            /\ holds[b].index # 0
            /\ holds[b].index # holds[a].index
            /\ (MoveOf(holds[a].id) \/ Release(holds[a].id)) )
          => points'[holds[b].index] = points[holds[b].index]]_vars

C33_OneDemoLoad ==
    [][ /\ imgPending' = "demo" => demoLoading'
        /\ (DemoRequest /\ demoLoading) =>
              UNCHANGED << points, draggingPoint, ghostPoint, isTouchDrag, lastX, lastY,
                           fitType, resultsArea, canvas, imgDisplay, storage,
                           demoLoading, imgPending, imgNatural, placedBefore,
                           pdfVars, reading >> ]_vars

\* A demo load is in flight and a marker has been placed since it was
\* requested: a load started by a second request would begin from other
\* markers than the one in flight.
C33_Witness ==
    /\ demoLoading
    /\ imgPending = "demo"
    /\ ~placedBefore
    /\ Len(points) > 0

\* C35: whenever draggingPoint is set, the marker it refers to is an element
\* of the current landmark sequence, whatever the order of gesture events and
\* Clear; so the commit on release always modifies a marker of the sequence.
C35_ActiveInSequence ==
    draggingPoint # {} => draggingPoint \subseteq DOMAIN points

\* C36: demoLoading is true only while a demo image load is pending: once no
\* demo load is pending the flag is false, whatever the order of demo
\* requests, uploads and load callbacks, so no later demo request is ignored
\* because of a stale flag.
C36_FlagOnlyWhilePending ==
    demoLoading => imgPending = "demo"

\* C37: after Clear the image stays hidden until the user next chooses a file
\* or asks for the demo image: no callback of a file read or image load
\* started before the Clear shows an image.
C37_HiddenAfterClear ==
    cleared => imgDisplay = "none"

\* C38: a gesture end or cancel changes the committed coordinates of at most
\* one marker, the active one: the length of the landmark sequence, the order
\* of the markers and the coordinates of every other marker stay as they were.
C38_EndFrame ==
    [][AnyEnd =>
          /\ Len(points') = Len(points)
          /\ \A i \in DOMAIN points :
                (points'[i] # points[i]) => (draggingPoint = {i} /\ ghostPoint = {points'[i]}) ]_vars

\* A drag of the second of three markers has ended on the place of the first:
\* the third is where it was placed, away from both.
C38_Witness ==
    /\ Len(points) = 3
    /\ points[2] = points[1]
    /\ points[2] = LastPointer
    /\ points[3] # points[1]
    /\ draggingPoint = {}
    /\ ghostPoint = {}

\* C39: a marker is appended only by a press, at the press location, and only
\* when every committed marker is at a distance of 25 px or more from that
\* location: at the moment it is placed, a marker is never within the capture
\* radius of another one, and never on it.
C39_PlacementSpacing ==
    [][Len(points') > Len(points) =>
          LET pos == [x |-> lastX', y |-> lastY']
          IN  /\ points' = Append(points, pos)
              /\ \A i \in DOMAIN points :
                    /\ SquaredDistance(points[i], pos) >= 25 * 25
                    /\ points[i] # pos ]_vars

\* A marker has just been placed next to others, the nearest of them as near
\* as a location out of the capture radius gets.
C39_Witness ==
    /\ Len(points) >= 3
    /\ draggingPoint = {Len(points)}
    /\ ghostPoint = {}
    /\ ~gestureMoved
    /\ points[Len(points)] = LastPointer
    /\ \A i \in 1..(Len(points) - 1) : SquaredDistance(points[i], LastPointer) >= 25 * 25
    /\ \E i \in 1..(Len(points) - 1) : SquaredDistance(points[i], LastPointer) = 1000

====
